---- MODULE Spec2Model ----
(***************************************************************************)
(* Model of the pCloud client SDK (src/src/pcloud_client.rs,               *)
(* src/src/file_ops.rs, src/src/pcloud_model.rs).                          *)
(*                                                                         *)
(* The specifications share the variables:                                 *)
(*   Spec         the session lifecycle: client construction (with_oauth,  *)
(*                with_username_and_password), cloning, builders holding   *)
(*                client clones, execution, release of handles and the     *)
(*                Drop of PCloudClientSession (spawned logout task).       *)
(*   FairSpec     Spec with the scheduling the runtime provides.           *)
(*   BuilderSpec  descriptor conversion, builder construction, request     *)
(*                serialization and id resolution (get_file_id, Tree).     *)
(*   ConfigSpec   the fluent methods of the builders and execution.        *)
(*   NormalizeSpec  assert_ok over every code of PCloudResult.             *)
(*                                                                         *)
(* Environment: handles are released inside the context of a tokio         *)
(* runtime; the runtime is either multi-threaded or current-thread.        *)
(***************************************************************************)
EXTENDS Integers, Sequences, FiniteSets, TLC

\* ------------------------------------------------------------------ bounds
MaxHandles == 3
MaxFiles == 2
MaxTreeOps == 2

\* ------------------------------------------------------- values and codes
NoToken == "none"

\* PCloudResult codes (pcloud_model.rs)
Ok == 0
NoFileIdOrPathProvided == 1004
LoginFailed == 2000
InvalidFileOrFolderName == 2001
AccessDenied == 2003
InvalidPath == 2010

\* hosts are modelled as <<scheme, name>>
NoHost == <<>>
Https(name) == <<"https://", name>>
DefaultHost == Https("api")

HandleIds == 1..MaxHandles

\* ---------------------------------------------------------------- state
VARIABLES
    runtime,      \* flavour of the tokio runtime the application runs on
    cpc,          \* position of the client constructor
    mode,         \* "none" | "oauth" | "password"
    ctorResult,   \* outcome of the constructor
    loginToken,   \* `token` local of with_username_and_password
    loginResp,    \* the response the login request received
    discoverResp, \* the response the discovery request received
    apiHost,      \* PCloudClient.api_host
    session,      \* content of Arc<Option<PCloudClientSession>>
    sessState,    \* lifecycle state of the session
    handles,      \* holders of a clone of the Arc, per slot
    task,         \* state of the logout task spawned by drop
    taskResult,   \* value the task returned
    dropState,    \* position of PCloudClientSession::drop
    dropLog,      \* what drop logged
    net           \* requests sent, in order

\* state of the request-building specification
VARIABLES
    bclient,      \* session held by the client the builders are made from
    bpc,          \* position of the builder / resolver call
    bkind,        \* operation the constructor was called for
    bsrc,         \* source argument of the constructor / resolver
    btgt,         \* target argument of the constructor (dual builders)
    builder,      \* the builder the constructor returned
    berr,         \* error the call returned (Ok when none)
    tree,         \* the Tree being built
    bres,         \* value the call returned
    bresp,        \* the response the call received
    bcfg,         \* last argument given to each fluent method of the builder
    bnet          \* requests sent, in order

bvars == <<bclient, bpc, bkind, bsrc, btgt, builder, berr, tree, bres, bresp,
          bcfg, bnet>>

svars == <<runtime, cpc, mode, ctorResult, loginToken, loginResp, discoverResp,
           apiHost,
           session, sessState, handles, task, taskResult, dropState, dropLog, net>>

NoResponse == [transport |-> "none"]
NoSession == [present |-> FALSE, token |-> NoToken, api_host |-> NoHost]

\* variant: the session keeps the host the constructor was given
MkSession_DefaultHost(t, h) ==
    [present |-> TRUE, token |-> t, api_host |-> DefaultHost]

\* PCloudClientSession { api_host, client, token }
MkSession(t, h) == [present |-> TRUE, token |-> t, api_host |-> h]

Req(ep, host, auth) == [ep |-> ep, host |-> host, auth |-> auth]

\* variant: builders hold no clone of the client
Live_ClientsOnly(hs) == {h \in HandleIds : hs[h] = "client"}

\* holders of a clone of the Arc: clients, builders, builders being executed
Live(hs) == {h \in HandleIds : hs[h] \in {"client", "builder", "executing"}}
CountEp(ep) == Cardinality({i \in 1..Len(net) : net[i].ep = ep})

SInit ==
    /\ runtime \in {"multi_thread", "current_thread"}
    /\ cpc = "start"
    /\ mode = "none"
    /\ ctorResult = "none"
    /\ loginToken = NoToken
    /\ loginResp = NoResponse
    /\ discoverResp = NoResponse
    /\ apiHost = NoHost
    /\ session = NoSession
    /\ sessState = "Unauthenticated"
    /\ handles = [h \in HandleIds |-> "free"]
    /\ task = "none"
    /\ taskResult = FALSE
    /\ dropState = "idle"
    /\ dropLog = "none"
    /\ net = <<>>

\* ------------------------------------------------ session: pure functions
LoginResponses ==
    [transport : {"ok"}, result : {Ok, LoginFailed}, auth : {"t1", "t2", NoToken}]
    \cup [transport : {"transport", "decode"}, result : {Ok}, auth : {NoToken}]

InternalError == 5000
DiscoverResponses ==
    [transport : {"ok"}, result : {Ok, InternalError},
     api : {<<>>, <<"eu1">>, <<"eu2", "eu1">>}]
    \cup [transport : {"transport", "decode"}, result : {Ok}, api : {<<>>}]

LogInRequired == 1000
LogoutResponses ==
    [transport : {"ok"}, result : {Ok, LogInRequired},
     auth_deleted : {"true", "false", "missing"}]
    \cup [transport : {"transport", "decode"}, result : {Ok}, auth_deleted : {"missing"}]

\* variant: a response that carries a token counts as a login whatever its code
LoginResult_AnyCode(resp) ==
    IF resp.transport # "ok"
    THEN [ok |-> FALSE, token |-> NoToken, err |-> resp.transport]
    ELSE IF resp.auth # NoToken
         THEN [ok |-> TRUE, token |-> resp.auth, err |-> "none"]
         ELSE [ok |-> FALSE, token |-> NoToken, err |-> "AccessDenied"]

\* PCloudClient::login: the value or error the function returns for a response
LoginResult(resp) ==
    IF resp.transport # "ok"
    THEN [ok |-> FALSE, token |-> NoToken, err |-> resp.transport]
    ELSE IF resp.result = Ok /\ resp.auth # NoToken
         THEN [ok |-> TRUE, token |-> resp.auth, err |-> "none"]
         ELSE [ok |-> FALSE, token |-> NoToken, err |-> "AccessDenied"]

\* PCloudClient::get_best_api_server
BestApiServer(resp, host) ==
    IF resp.transport # "ok"
    THEN [kind |-> "err", host |-> NoHost, err |-> resp.transport]
    ELSE IF resp.result = Ok
         THEN IF Len(resp.api) = 0
              THEN [kind |-> "panic", host |-> NoHost, err |-> "panic"]
              ELSE [kind |-> "ok", host |-> Https(resp.api[1]), err |-> "none"]
         ELSE [kind |-> "ok", host |-> host, err |-> "none"]

\* PCloudClient::logout: Ok(bool) or Err
LogoutResult(resp) ==
    IF resp.transport # "ok"
    THEN [ok |-> FALSE, value |-> FALSE]
    ELSE [ok |-> TRUE,
          value |-> (resp.result = Ok /\ resp.auth_deleted # "missing"
                     /\ resp.auth_deleted = "true")]

\* the match in the task spawned by drop: value returned and line logged
DropTaskValue(r) ==
    IF r.ok
    THEN IF r.value THEN [value |-> TRUE, log |-> "debug: Successful logout"]
                    ELSE [value |-> FALSE, log |-> "warn: Failed to logout"]
    ELSE [value |-> FALSE, log |-> "warn: Error on logout"]

\* variant: drop does not wait for the spawned task
BlockOnUnwrap_NoWait(t) ==
    IF t = "cancelled" THEN "panicked" ELSE "returned"

\* block_on(op).unwrap(): what the releasing call does for a state of the task
BlockOnUnwrap(t) ==
    CASE t = "finished"  -> "returned"
      [] t = "cancelled" -> "panicked"
      [] OTHER           -> "blocked"

\* PCloudClient::add_token / PCloudClientSession::add_token: the auth parameter
AddToken(s) == IF s.present THEN s.token ELSE NoToken

\* variant: with_oauth wraps the bearer credential in a session
OAuthSession_Bearer == MkSession("t1", DefaultHost)

\* content of the Arc made by with_oauth
OAuthSession == NoSession

\* variant: every handle owns its own copy of the session
IsLastReference_Own(hs, h) == TRUE

\* Arc strong count reaches zero when handle h is released
IsLastReference(hs, h) == Live(hs) = {h}

\* the spawned task is polled only by a thread other than the one blocked in drop
CanPoll == runtime = "multi_thread"

\* ------------------------------------------------------ session: actions
\* PCloudClient::with_oauth up to the await of the discovery request
WithOAuth ==
    /\ cpc = "start"
    /\ mode' = "oauth"
    /\ sessState' = "Stateless"
    /\ net' = Append(net, Req("getapiserver", DefaultHost, NoToken))
    /\ cpc' = "discover_wait"
    /\ UNCHANGED <<runtime, ctorResult, loginToken, loginResp, discoverResp,
                   apiHost, session,
                   handles, task, taskResult, dropState, dropLog>>
    /\ UNCHANGED bvars

\* variant: the constructor asks for the nearest endpoint before it logs in
WithUsernameAndPassword_DiscoverFirst ==
    /\ cpc = "start"
    /\ mode' = "password"
    /\ sessState' = "Authenticating"
    /\ net' = Append(net, Req("getapiserver", DefaultHost, NoToken))
    /\ cpc' = "discover_wait"
    /\ UNCHANGED <<runtime, ctorResult, loginToken, loginResp, discoverResp,
                   apiHost, session,
                   handles, task, taskResult, dropState, dropLog>>
    /\ UNCHANGED bvars

\* PCloudClient::with_username_and_password up to the await inside login
WithUsernameAndPassword ==
    /\ cpc = "start"
    /\ mode' = "password"
    /\ sessState' = "Authenticating"
    /\ net' = Append(net, Req("login", DefaultHost, NoToken))
    /\ cpc' = "login_wait"
    /\ UNCHANGED <<runtime, ctorResult, loginToken, loginResp, discoverResp,
                   apiHost, session,
                   handles, task, taskResult, dropState, dropLog>>
    /\ UNCHANGED bvars

\* login returns; on success the constructor goes on to the discovery request
LoginRecv(resp) ==
    /\ cpc = "login_wait"
    /\ LET r == LoginResult(resp) IN
         IF r.ok
         THEN /\ loginToken' = r.token
              /\ loginResp' = resp
              /\ sessState' = "Active"
              /\ net' = Append(net, Req("getapiserver", DefaultHost, r.token))
              /\ cpc' = "discover_wait"
              /\ UNCHANGED ctorResult
         ELSE /\ loginResp' = resp
              /\ cpc' = "failed"
              /\ ctorResult' = r.err
              /\ sessState' = "Unauthenticated"
              /\ UNCHANGED <<loginToken, net>>
    /\ UNCHANGED <<runtime, mode, discoverResp, apiHost, session, handles, task,
                   taskResult, dropState, dropLog>>
    /\ UNCHANGED bvars

\* get_best_api_server returns; the constructor builds the client
DiscoverRecv(resp) ==
    /\ cpc = "discover_wait"
    /\ discoverResp' = resp
    /\ LET r == BestApiServer(resp, DefaultHost) IN
         IF r.kind = "ok"
         THEN /\ apiHost' = r.host
              /\ session' = IF mode = "password" THEN MkSession(loginToken, r.host)
                                                 ELSE OAuthSession
              /\ handles' = [handles EXCEPT ![1] = "client"]
              /\ cpc' = "ready"
              /\ ctorResult' = "ok"
         ELSE /\ cpc' = "failed"
              /\ ctorResult' = r.err
              /\ UNCHANGED <<apiHost, session, handles>>
    /\ UNCHANGED <<runtime, mode, loginToken, loginResp, sessState, task, taskResult,
                   dropState, dropLog, net>>
    /\ UNCHANGED bvars

\* variant: a clone logs in again
CloneClient_Relogin(h, g) ==
    /\ handles[h] = "client"
    /\ handles[g] = "free"
    /\ handles' = [handles EXCEPT ![g] = "client"]
    /\ net' = Append(net, Req("login", DefaultHost, NoToken))
    /\ UNCHANGED <<runtime, cpc, mode, ctorResult, loginToken, loginResp, discoverResp,
                   apiHost,
                   session, sessState, task, taskResult, dropState, dropLog>>
    /\ UNCHANGED bvars

\* #[derive(Clone)] on PCloudClient: a new holder of the same Arc
CloneClient(h, g) ==
    /\ handles[h] = "client"
    /\ handles[g] = "free"
    /\ handles' = [handles EXCEPT ![g] = "client"]
    /\ UNCHANGED <<runtime, cpc, mode, ctorResult, loginToken, loginResp, discoverResp,
                   apiHost,
                   session, sessState, task, taskResult, dropState, dropLog, net>>
    /\ UNCHANGED bvars

\* a builder constructor (or Tree::create) succeeds: `client: client.clone()`
NewBuilder(h, g) ==
    /\ handles[h] = "client"
    /\ handles[g] = "free"
    /\ handles' = [handles EXCEPT ![g] = "builder"]
    /\ UNCHANGED <<runtime, cpc, mode, ctorResult, loginToken, loginResp, discoverResp,
                   apiHost,
                   session, sessState, task, taskResult, dropState, dropLog, net>>
    /\ UNCHANGED bvars

\* releasing the holder in slot h; the last one runs PCloudClientSession::drop
\* up to block_on
Release(h) ==
    /\ handles' = [handles EXCEPT ![h] = "dropped"]
    /\ IF IsLastReference(handles, h) /\ session.present
       THEN /\ sessState' = "Revoking"
            /\ dropState' = "blocked"
            /\ task' = "spawned"
       ELSE UNCHANGED <<sessState, dropState, task>>

\* execute/get of a builder up to the await of send: the request leaves
ExecSend(g) ==
    /\ handles[g] = "builder"
    /\ handles' = [handles EXCEPT ![g] = "executing"]
    /\ net' = Append(net, Req("op", apiHost, AddToken(session)))
    /\ UNCHANGED <<runtime, cpc, mode, ctorResult, loginToken, loginResp, discoverResp,
                   apiHost,
                   session, sessState, task, taskResult, dropState, dropLog>>
    /\ UNCHANGED bvars

\* execute/get returns; the builder (self) and its client clone are dropped
ExecRecv(g) ==
    /\ handles[g] = "executing"
    /\ Release(g)
    /\ UNCHANGED <<runtime, cpc, mode, ctorResult, loginToken, loginResp, discoverResp,
                   apiHost,
                   session, taskResult, dropLog, net>>
    /\ UNCHANGED bvars

\* a client handle or an unused builder goes out of scope
DropHandle(h) ==
    /\ handles[h] \in {"client", "builder"}
    /\ Release(h)
    /\ UNCHANGED <<runtime, cpc, mode, ctorResult, loginToken, loginResp, discoverResp,
                   apiHost,
                   session, taskResult, dropLog, net>>
    /\ UNCHANGED bvars

\* the spawned task runs PCloudClient::logout up to the await of send
LogoutSend ==
    /\ task = "spawned"
    /\ CanPoll
    /\ net' = Append(net, Req("logout", session.api_host, session.token))
    /\ task' = "sent"
    /\ UNCHANGED <<runtime, cpc, mode, ctorResult, loginToken, loginResp, discoverResp,
                   apiHost,
                   session, sessState, handles, taskResult, dropState, dropLog>>
    /\ UNCHANGED bvars

\* logout returns inside the task; the task logs and finishes
LogoutRecv(resp) ==
    /\ task = "sent"
    /\ LET v == DropTaskValue(LogoutResult(resp)) IN
         /\ taskResult' = v.value
         /\ dropLog' = v.log
    /\ task' = "finished"
    /\ UNCHANGED <<runtime, cpc, mode, ctorResult, loginToken, loginResp, discoverResp,
                   apiHost,
                   session, sessState, handles, dropState, net>>
    /\ UNCHANGED bvars

\* the runtime shuts down (or the task panics) before the task completes:
\* the JoinHandle resolves to Err(JoinError)
TaskCancel ==
    /\ task \in {"spawned", "sent"}
    /\ task' = "cancelled"
    /\ UNCHANGED <<runtime, cpc, mode, ctorResult, loginToken, loginResp, discoverResp,
                   apiHost,
                   session, sessState, handles, taskResult, dropState, dropLog, net>>
    /\ UNCHANGED bvars

\* block_on(op) resolves and unwrap is applied: drop returns or panics
DropReturn ==
    /\ dropState = "blocked"
    /\ BlockOnUnwrap(task) # "blocked"
    /\ dropState' = BlockOnUnwrap(task)
    /\ sessState' = IF BlockOnUnwrap(task) = "returned" THEN "Revoked" ELSE sessState
    /\ UNCHANGED <<runtime, cpc, mode, ctorResult, loginToken, loginResp, discoverResp,
                   apiHost,
                   session, handles, task, taskResult, dropLog, net>>
    /\ UNCHANGED bvars
\* =================================================================
\* Request building: descriptors, builders, serialization, resolution
\* =================================================================

\* Option<T> is a sequence of length 0 (None) or 1 (Some)
None == <<>>
Some(x) == <<x>>
IsSome(o) == Len(o) = 1
IsNone(o) == Len(o) = 0

\* sample values; a path is the sequence of its characters
FileIds == {5}
FolderIds == {0, 5}
Revs == {3, 7}
RootPath == <<"/">>
FilePaths == {<<"/", "a">>}
FileNotFound == 2009

Opt(S) == {None} \cup {Some(x) : x \in S}

Metadatas == [isfolder : BOOLEAN, fileid : Opt(FileIds), folderid : Opt({5})]
StatMetadatas == {m \in Metadatas : IsSome(m.fileid) # IsSome(m.folderid)}
Stats == [result : {Ok, FileNotFound}, metadata : Opt(StatMetadatas)]

\* arguments a caller can pass where a FileDescriptor is expected
BaseFileInputs ==
    [tag : {"u64"}, id : FileIds]
    \cup [tag : {"str"}, path : FilePaths]
    \cup [tag : {"meta"}, meta : Metadatas]
    \cup [tag : {"stat"}, stat : Stats]
    \cup [tag : {"file"},
           file : [file_id : Opt(FileIds), path : Opt(FilePaths),
                   revision : Opt(Revs)]]
FileInputs == BaseFileInputs \cup [tag : {"rev"}, inner : BaseFileInputs, rev : Revs]

\* arguments a caller can pass where a folder descriptor is expected
FolderInputs ==
    [tag : {"u64"}, id : FolderIds]
    \cup [tag : {"str"}, path : {RootPath, <<"/", "a">>, <<"a">>, <<>>}]
    \cup [tag : {"meta"}, meta : Metadatas]
    \cup [tag : {"stat"}, stat : Stats]
    \cup [tag : {"folder"},
           folder : [folder_id : Opt(FolderIds), path : Opt({<<"/", "a">>})]]

OkVal(v) == [ok |-> TRUE, val |-> v, err |-> Ok]
ErrVal(e) == [ok |-> FALSE, val |-> None, err |-> e]

\* variant: any non-empty string is taken as a path
StartsWithSlash_NonEmpty(p) == Len(p) > 0

\* str::starts_with("/")
StartsWithSlash(p) == Len(p) > 0 /\ p[1] = "/"

\* ------------------------------------------------- file descriptors
\* From<u64> / From<&u64> for PCloudFile
FileFromId(id) == [file_id |-> Some(id), path |-> None, revision |-> None]

\* From<&str> / From<String> for PCloudFile
FileFromPath(p) == [file_id |-> None, path |-> Some(p), revision |-> None]

\* variant: the id is read without looking at the folder flag
FileFromMetadata_Unchecked(m) ==
    [ok |-> TRUE, val |-> [file_id |-> m.fileid, path |-> None, revision |-> None],
     err |-> Ok]

\* TryFrom<&Metadata> for PCloudFile
FileFromMetadata(m) ==
    IF m.isfolder
    THEN ErrVal(InvalidFileOrFolderName)
    ELSE OkVal([file_id |-> m.fileid, path |-> None, revision |-> None])

\* TryFrom<&FileOrFolderStat> for PCloudFile
FileFromStat(st) ==
    IF st.result = Ok /\ IsSome(st.metadata)
    THEN FileFromMetadata(st.metadata[1])
    ELSE ErrVal(InvalidFileOrFolderName)

\* FileDescriptor::to_file for the single-value implementations
to_file_base(in) ==
    CASE in.tag = "u64"  -> OkVal(FileFromId(in.id))
      [] in.tag = "str"  -> OkVal(FileFromPath(in.path))
      [] in.tag = "meta" -> FileFromMetadata(in.meta)
      [] in.tag = "stat" -> FileFromStat(in.stat)
      [] in.tag = "file" -> OkVal(in.file)

\* variant: a revision the inner descriptor already has is kept
to_file_KeepInner(in) ==
    IF in.tag = "rev"
    THEN LET r == to_file_base(in.inner) IN
         IF r.ok
         THEN OkVal([r.val EXCEPT !.revision =
                        IF IsSome(@) THEN @ ELSE Some(in.rev)])
         ELSE r
    ELSE to_file_base(in)

\* FileDescriptor::to_file, the (T, u64) implementations included
to_file(in) ==
    IF in.tag = "rev"
    THEN LET r == to_file_base(in.inner) IN
         IF r.ok THEN OkVal([r.val EXCEPT !.revision = Some(in.rev)]) ELSE r
    ELSE to_file_base(in)

\* variant: a descriptor that carries a revision does not count as empty
is_empty_Revision(f) == IsNone(f.file_id) /\ IsNone(f.path) /\ IsNone(f.revision)

\* PCloudFile::is_empty
is_empty(f) == IsNone(f.file_id) /\ IsNone(f.path)

\* ----------------------------------------------- folder descriptors
\* variant: the root path is not special-cased
FolderFromPath_NoRoot(p) ==
    IF StartsWithSlash(p)
    THEN [ok |-> TRUE, val |-> [folder_id |-> None, path |-> Some(p)], err |-> Ok]
    ELSE [ok |-> FALSE, val |-> None, err |-> InvalidPath]

\* TryInto<PCloudFolder> for &str / String
FolderFromPath(p) ==
    IF p = RootPath
    THEN OkVal([folder_id |-> Some(0), path |-> None])
    ELSE IF StartsWithSlash(p)
         THEN OkVal([folder_id |-> None, path |-> Some(p)])
         ELSE ErrVal(InvalidPath)

\* Into<PCloudFolder> for u64 / &u64
FolderFromId(id) == [folder_id |-> Some(id), path |-> None]

\* TryInto<PCloudFolder> for &Metadata
FolderFromMetadata(m) ==
    IF ~m.isfolder
    THEN ErrVal(InvalidFileOrFolderName)
    ELSE OkVal([folder_id |-> m.folderid, path |-> None])

\* TryInto<PCloudFolder> for &FileOrFolderStat
FolderFromStat(st) ==
    IF st.result = Ok /\ IsSome(st.metadata)
    THEN FolderFromMetadata(st.metadata[1])
    ELSE ErrVal(InvalidPath)

\* folder_like.try_into(): conversion of any accepted argument
to_folder(in) ==
    CASE in.tag = "u64"    -> OkVal(FolderFromId(in.id))
      [] in.tag = "str"    -> FolderFromPath(in.path)
      [] in.tag = "meta"   -> FolderFromMetadata(in.meta)
      [] in.tag = "stat"   -> FolderFromStat(in.stat)
      [] in.tag = "folder" -> OkVal(in.folder)

\* `f.folder_id.is_some() || f.path.is_some()` of the folder constructors
folder_is_present(f) == IsSome(f.folder_id) \/ IsSome(f.path)
\* --------------------------------------------------------- builders
FileSingleKinds == {"stat", "delete_file", "download", "checksum", "publink",
                    "list_revisions"}
FolderSingleKinds == {"list", "upload", "create_folder", "delete_folder"}
DualFileKinds == {"copy_file", "move_file"}
DualFolderKinds == {"copy_folder", "move_folder"}
SingleKinds == FileSingleKinds \cup FolderSingleKinds
DualKinds == DualFileKinds \cup DualFolderKinds

\* builders that have a revision_id field filled from the descriptor's revision
RevisionKinds == {"stat", "download", "checksum", "publink", "copy_file", "move_file"}

NoBuilder == [kind |-> "none"]
NoInput == [tag |-> "none"]

\* values the constructors give the optional fields
DefaultOpts(kind) ==
    CASE kind = "copy_file" ->
             [to_name |-> None, overwrite |-> TRUE, mtime |-> None, ctime |-> None]
      [] kind = "move_file" -> [to_name |-> None]
      [] kind = "copy_folder" ->
             [to_name |-> None, overwrite |-> TRUE, skipexisting |-> FALSE,
              copycontentonly |-> FALSE]
      [] kind = "move_folder" -> [to_name |-> None]
      [] kind = "upload" ->
             [no_partial |-> TRUE, rename_if_exists |-> FALSE, mtime |-> None,
              ctime |-> None, files |-> 0]
      [] kind = "list" ->
             [recursive |-> FALSE, showdeleted |-> FALSE, nofiles |-> FALSE,
              noshares |-> FALSE]
      [] kind = "create_folder" -> [name |-> <<"n">>, if_not_exists |-> TRUE]
      [] kind = "publink" ->
             [expire |-> None, max_downloads |-> None, max_traffic |-> None,
              short_link |-> FALSE, link_password |-> None]
      [] kind = "diff" ->
             [diff_id |-> None, after |-> None, last |-> None, block |-> FALSE,
              limit |-> None]
      [] OTHER -> <<>>

MkBuilder(kind, id, path, rev, to_id, to_path) ==
    [kind |-> kind, id |-> id, path |-> path,
     revision_id |-> IF kind \in RevisionKinds THEN rev ELSE None,
     to_id |-> to_id, to_path |-> to_path, opts |-> DefaultOpts(kind)]

\* for_file of the file builders (stat, delete, download, checksum, public link,
\* list revisions)
ForFile(kind, in) ==
    LET r == to_file(in) IN
    IF ~r.ok THEN ErrVal(r.err)
    ELSE IF ~is_empty(r.val)
         THEN OkVal(MkBuilder(kind, r.val.file_id, r.val.path, r.val.revision,
                              None, None))
         ELSE ErrVal(NoFileIdOrPathProvided)

\* for_folder / into_folder of the folder builders (list, upload, create, delete)
ForFolder(kind, in) ==
    LET r == to_folder(in) IN
    IF ~r.ok THEN ErrVal(r.err)
    ELSE IF folder_is_present(r.val)
         THEN OkVal(MkBuilder(kind, r.val.folder_id, r.val.path, None, None, None))
         ELSE ErrVal(NoFileIdOrPathProvided)

\* variant: one resolvable side is enough
DualFile_Either(kind, src, tgt) ==
    LET source == to_file(src)
        target == to_folder(tgt) IN
    IF ~source.ok THEN ErrVal(source.err)
    ELSE IF ~target.ok THEN ErrVal(target.err)
    ELSE IF ~is_empty(source.val) \/ folder_is_present(target.val)
         THEN OkVal(MkBuilder(kind, source.val.file_id, source.val.path,
                              source.val.revision, target.val.folder_id,
                              target.val.path))
         ELSE ErrVal(NoFileIdOrPathProvided)

\* copy_file / move_file
DualFile(kind, src, tgt) ==
    LET source == to_file(src)
        target == to_folder(tgt) IN
    IF ~source.ok THEN ErrVal(source.err)
    ELSE IF ~target.ok THEN ErrVal(target.err)
    ELSE IF ~is_empty(source.val) /\ folder_is_present(target.val)
         THEN OkVal(MkBuilder(kind, source.val.file_id, source.val.path,
                              source.val.revision, target.val.folder_id,
                              target.val.path))
         ELSE ErrVal(NoFileIdOrPathProvided)

\* copy_folder / move_folder
DualFolder(kind, src, tgt) ==
    LET source == to_folder(src)
        target == to_folder(tgt) IN
    IF ~source.ok THEN ErrVal(source.err)
    ELSE IF ~target.ok THEN ErrVal(target.err)
    ELSE IF folder_is_present(source.val) /\ folder_is_present(target.val)
         THEN OkVal(MkBuilder(kind, source.val.folder_id, source.val.path, None,
                              target.val.folder_id, target.val.path))
         ELSE ErrVal(NoFileIdOrPathProvided)

\* ---------------------------------------------------- serialization
\* one query parameter: a number or a string (sequence of characters)
PNum(name, n) == [name |-> name, num |-> n, str |-> <<>>]
PStr(name, st) == [name |-> name, num |-> -1, str |-> st]

OptNum(name, o) == IF IsSome(o) THEN <<PNum(name, o[1])>> ELSE <<>>
OptStr(name, o) == IF IsSome(o) THEN <<PStr(name, o[1])>> ELSE <<>>
Flag(name, cond) == IF cond THEN <<PStr(name, <<"1">>)>> ELSE <<>>

\* variant: the auth parameter is added whether or not there is a session
AuthParam_Always(sess) == <<PStr("auth", <<AddToken(sess)>>)>>

\* PCloudClient::add_token applied to a request
AuthParam(sess) ==
    IF AddToken(sess) # NoToken THEN <<PStr("auth", <<AddToken(sess)>>)>> ELSE <<>>

\* terminal methods a builder offers
Methods(kind) ==
    IF kind = "delete_folder" THEN {"delete_recursive", "delete_folder_if_empty"}
    ELSE IF kind = "upload" THEN {"upload"}
    ELSE IF kind \in {"copy_file", "move_file", "copy_folder", "move_folder",
                      "create_folder", "delete_file"} THEN {"execute"}
    ELSE {"get"}

\* path of the API method a builder calls
Endpoint(b, m) ==
    CASE b.kind = "stat" -> "/stat"
      [] b.kind = "delete_file" -> "/deletefile"
      [] b.kind = "download" -> "/getfilelink"
      [] b.kind = "checksum" -> "/checksumfile"
      [] b.kind = "publink" -> "/getfilepublink"
      [] b.kind = "list_revisions" -> "/listrevisions"
      [] b.kind = "list" -> "/listfolder"
      [] b.kind = "upload" -> "/uploadfile"
      [] b.kind = "create_folder" ->
             IF b.opts.if_not_exists THEN "/createfolderifnotexists"
                                     ELSE "/createfolder"
      [] b.kind = "delete_folder" ->
             IF m = "delete_recursive" THEN "/deletefolderrecursive"
                                       ELSE "/deletefolder"
      [] b.kind = "copy_file" -> "/copyfile"
      [] b.kind = "move_file" -> "/renamefile"
      [] b.kind = "copy_folder" -> "/copyfolder"
      [] b.kind = "move_folder" -> "/renamefolder"
      [] b.kind = "diff" -> "/diff"

\* the query parameters execute/get adds before add_token, in the code's order
QueryParams(b) ==
    CASE b.kind \in {"stat", "download", "checksum"} ->
             OptNum("fileid", b.id) \o OptStr("path", b.path)
             \o OptNum("revisionid", b.revision_id)
      [] b.kind \in {"delete_file", "list_revisions"} ->
             OptNum("fileid", b.id) \o OptStr("path", b.path)
      [] b.kind = "publink" ->
             OptNum("fileid", b.id) \o OptStr("path", b.path)
             \o OptNum("maxdownloads", b.opts.max_downloads)
             \o OptStr("linkpassword", b.opts.link_password)
             \o OptNum("maxtraffic", b.opts.max_traffic)
             \o Flag("shortlink", b.opts.short_link)
             \o OptStr("expire", b.opts.expire)
             \o OptNum("revisionid", b.revision_id)
      [] b.kind = "list" ->
             OptStr("path", b.path) \o OptNum("folderid", b.id)
             \o Flag("recursive", b.opts.recursive)
             \o Flag("showdeleted", b.opts.showdeleted)
             \o Flag("nofiles", b.opts.nofiles)
             \o Flag("noshares", b.opts.noshares)
      [] b.kind = "upload" ->
             OptStr("path", b.path) \o OptNum("folderid", b.id)
             \o Flag("nopartial", b.opts.no_partial)
             \o Flag("renameifexists", b.opts.rename_if_exists)
             \o OptNum("mtime", b.opts.mtime) \o OptNum("ctime", b.opts.ctime)
      [] b.kind = "create_folder" ->
             OptStr("path", b.path) \o OptNum("folderid", b.id)
             \o <<PStr("name", b.opts.name)>>
      [] b.kind = "delete_folder" ->
             OptStr("path", b.path) \o OptNum("folderid", b.id)
      [] b.kind = "copy_file" ->
             OptStr("path", b.path) \o OptNum("fileid", b.id)
             \o OptStr("topath", b.to_path) \o OptNum("tofolderid", b.to_id)
             \o OptNum("mtime", b.opts.mtime) \o OptNum("ctime", b.opts.ctime)
             \o OptStr("toname", b.opts.to_name)
             \o OptNum("revisionid", b.revision_id)
             \o Flag("noover", ~b.opts.overwrite)
      [] b.kind = "move_file" ->
             OptStr("path", b.path) \o OptNum("fileid", b.id)
             \o OptStr("topath", b.to_path) \o OptNum("tofolderid", b.to_id)
             \o OptStr("toname", b.opts.to_name)
             \o OptNum("revisionid", b.revision_id)
      [] b.kind = "copy_folder" ->
             OptStr("path", b.path) \o OptNum("folderid", b.id)
             \o OptStr("topath", b.to_path) \o OptNum("tofolderid", b.to_id)
             \o OptStr("toname", b.opts.to_name)
             \o Flag("noover", ~b.opts.overwrite)
             \o Flag("skipexisting", ~b.opts.skipexisting)
             \o Flag("copycontentonly", ~b.opts.copycontentonly)
      [] b.kind = "move_folder" ->
             OptStr("path", b.path) \o OptNum("folderid", b.id)
             \o OptStr("topath", b.to_path) \o OptNum("tofolderid", b.to_id)
             \o OptStr("toname", b.opts.to_name)
      [] b.kind = "diff" ->
             OptNum("diffid", b.opts.diff_id) \o OptNum("last", b.opts.last)
             \o OptNum("limit", b.opts.limit) \o Flag("block", b.opts.block)
             \o OptStr("after", b.opts.after)

\* the request terminal method m sends for builder b of client c
Serialize(b, m, c) ==
    [ep |-> Endpoint(b, m), host |-> c.api_host,
     params |-> QueryParams(b) \o AuthParam(c.session)]
\* ------------------------------------------------ responses, results
OpResponses ==
    [transport : {"ok"}, result : {Ok, FileNotFound}, metadata : {None}]
    \cup [transport : {"transport", "decode"}, result : {Ok}, metadata : {None}]

\* responses of /stat: the metadata is present or not, of a file or a folder
StatResponses ==
    [transport : {"ok"}, result : {Ok, FileNotFound}, metadata : Opt(Metadatas)]
    \cup [transport : {"transport", "decode"}, result : {Ok}, metadata : {None}]

NoResult == [kind |-> "none"]

\* every code of the enum PCloudResult
PCloudResults ==
    {Ok, LogInRequired, 1001, 1002, NoFileIdOrPathProvided, 1007, 1013, 1016, 1017,
     1018, 1037, 1040, LoginFailed, InvalidFileOrFolderName, 2002, AccessDenied,
     2005, 2006, 2007, 2008, FileNotFound, InvalidPath, 2014, 2023, 2026, 2028,
     2041, 2042, 2043, 4000, InternalError, 5001, 5003}

\* decoded responses that carry a result code (FileOrFolderStat)
DecodedResponses ==
    [transport : {"ok"}, result : PCloudResults, metadata : Opt(StatMetadatas)]

\* variant: every failure is reported as an internal error
assert_ok_Generic(resp) ==
    IF resp.result = Ok THEN [ok |-> TRUE, val |-> resp, err |-> Ok]
    ELSE [ok |-> FALSE, val |-> <<>>, err |-> InternalError]

\* WithPCloudResult::assert_ok
assert_ok(resp) == IF resp.result = Ok THEN OkVal(resp) ELSE ErrVal(resp.result)

\* `r.send().await?.json::<T>().await?.assert_ok()?; Ok(..)` of execute/get
ExecResult(resp) ==
    IF resp.transport # "ok"
    THEN [kind |-> "failure", code |-> Ok, cause |-> resp.transport]
    ELSE IF assert_ok(resp).ok
         THEN [kind |-> "payload", code |-> resp.result, cause |-> "none"]
         ELSE [kind |-> "error", code |-> assert_ok(resp).err, cause |-> "none"]

\* the synthetic UploadedFile of an upload without files
NothingUploaded ==
    [kind |-> "payload", code |-> Ok, cause |-> "synthetic", fileids |-> <<>>,
     metadata |-> <<>>]

\* variant: upload always sends the request
ShortCircuits_Never(b) == FALSE

\* `if self.files.is_empty()` at the start of UploadRequestBuilder::upload
ShortCircuits(b) == b.kind = "upload" /\ b.opts.files = 0

\* -------------------------------------------------- id resolution
EmptyTree == [folder_id |-> None, folder_ids |-> <<>>, file_ids |-> <<>>,
              exclude_folder_ids |-> <<>>, exclude_file_ids |-> <<>>]

IdResult(id, rev) == [kind |-> "id", id |-> id, rev |-> rev, code |-> Ok]
IdError(code) == [kind |-> "error", id |-> -1, rev |-> None, code |-> code]
IdFailure(cause) == [kind |-> cause, id |-> -1, rev |-> None, code |-> Ok]

\* ids.iter().map(|n| n.to_string()).collect::<Vec<String>>().join(",")
RECURSIVE JoinIds(_)
JoinIds(ids) ==
    IF Len(ids) = 0 THEN <<>>
    ELSE IF Len(ids) = 1 THEN <<ToString(ids[1])>>
    ELSE <<ToString(ids[1]), ",">> \o JoinIds(Tail(ids))

IdList(name, ids) == IF Len(ids) > 0 THEN <<PStr(name, JoinIds(ids))>> ELSE <<>>

\* Tree::add_to_request: the parameters the tree adds to a request
TreeParams(t) ==
    OptNum("folderid", t.folder_id) \o IdList("folderids", t.folder_ids)
    \o IdList("fileids", t.file_ids)
    \o IdList("excludefolderids", t.exclude_folder_ids)
    \o IdList("excludefileids", t.exclude_file_ids)

\* variant: a path, when present, is resolved by a stat request
GetFileIdLocal_PathFirst(in) ==
    LET r == to_file(in) IN
    IF ~r.ok THEN [done |-> TRUE, res |-> IdError(r.err), b |-> NoBuilder]
    ELSE IF IsSome(r.val.file_id) /\ IsNone(r.val.path)
         THEN [done |-> TRUE, res |-> IdResult(r.val.file_id[1], r.val.revision),
               b |-> NoBuilder]
         ELSE LET f == ForFile("stat", [tag |-> "file", file |-> r.val]) IN
              IF f.ok THEN [done |-> FALSE, res |-> NoResult, b |-> f.val]
              ELSE [done |-> TRUE, res |-> IdError(f.err), b |-> NoBuilder]

\* PCloudClient::get_file_id up to its first await: the result when none is
\* needed (done), or the stat builder get_file_metadata makes (~done)
GetFileIdLocal(in) ==
    LET r == to_file(in) IN
    IF ~r.ok THEN [done |-> TRUE, res |-> IdError(r.err), b |-> NoBuilder]
    ELSE IF IsSome(r.val.file_id)
         THEN [done |-> TRUE, res |-> IdResult(r.val.file_id[1], r.val.revision),
               b |-> NoBuilder]
         ELSE LET f == ForFile("stat", [tag |-> "file", file |-> r.val]) IN
              IF f.ok THEN [done |-> FALSE, res |-> NoResult, b |-> f.val]
              ELSE [done |-> TRUE, res |-> IdError(f.err), b |-> NoBuilder]

\* variant: metadata without a file id resolves to the default id
GetFileIdRemote_Default(resp, rev) ==
    LET e == ExecResult(resp) IN
    IF e.kind = "failure" THEN IdFailure(e.cause)
    ELSE IF e.kind = "error" THEN IdError(e.code)
    ELSE IF IsNone(resp.metadata) THEN IdFailure("panic")
    ELSE IF resp.metadata[1].isfolder THEN IdError(NoFileIdOrPathProvided)
    ELSE IF IsSome(resp.metadata[1].fileid)
         THEN IdResult(resp.metadata[1].fileid[1], rev)
         ELSE IdResult(0, rev)

\* PCloudClient::get_file_id after the stat response arrived
GetFileIdRemote(resp, rev) ==
    LET e == ExecResult(resp) IN
    IF e.kind = "failure" THEN IdFailure(e.cause)
    ELSE IF e.kind = "error" THEN IdError(e.code)
    ELSE IF IsNone(resp.metadata) THEN IdFailure("panic")
    ELSE IF resp.metadata[1].isfolder THEN IdError(NoFileIdOrPathProvided)
    ELSE IF IsSome(resp.metadata[1].fileid)
         THEN IdResult(resp.metadata[1].fileid[1], rev)
         ELSE IdError(NoFileIdOrPathProvided)

\* Tree::with_file / Tree::without_file after get_file_id returned id
TreePush(t, op, id) ==
    IF op = "with_file"
    THEN [t EXCEPT !.file_ids = Append(@, id)]
    ELSE [t EXCEPT !.exclude_file_ids = Append(@, id)]

TreeLen(t) == Len(t.file_ids) + Len(t.exclude_file_ids)
\* ------------------------------------------------- fluent methods
\* DiffRequestBuilder::create
DiffCreate == MkBuilder("diff", None, None, None, None, None)

\* DiffRequestBuilder::get: `r.send().await?.json::<Diff>().await?`, no
\* assert_ok; the body of an error response has no diffid and does not decode
DiffResult(resp) ==
    IF resp.transport # "ok"
    THEN [kind |-> "failure", code |-> Ok, cause |-> resp.transport]
    ELSE IF resp.result # Ok
         THEN [kind |-> "failure", code |-> Ok, cause |-> "decode"]
         ELSE [kind |-> "payload", code |-> resp.result, cause |-> "none"]

\* the fluent methods each builder offers (with_file apart)
Setters(kind) ==
    CASE kind = "copy_file" ->
             {"overwrite", "mtime", "ctime", "with_new_name", "with_revision"}
      [] kind = "move_file" -> {"with_new_name", "with_revision"}
      [] kind = "publink" ->
             {"expire_link_after", "with_max_downloads", "with_max_traffic",
              "with_shortlink", "with_password", "with_revision"}
      [] kind \in {"stat", "download", "checksum"} -> {"with_revision"}
      [] kind = "upload" -> {"no_partial", "rename_if_exists", "mtime", "ctime"}
      [] kind = "list" -> {"recursive", "showdeleted", "nofiles", "noshares"}
      [] kind = "create_folder" -> {"if_not_exists"}
      [] kind = "copy_folder" -> {"overwrite", "skipexisting", "copycontentonly"}
      [] kind = "move_folder" -> {"with_new_name"}
      [] kind = "diff" -> {"after_diff_id", "after", "only_last", "block", "limit"}
      [] OTHER -> {}

BoolMethods == {"overwrite", "with_shortlink", "no_partial", "rename_if_exists",
                "recursive", "showdeleted", "nofiles", "noshares", "if_not_exists",
                "skipexisting", "copycontentonly", "block"}
NumMethods == {"with_revision", "with_max_downloads", "with_max_traffic",
               "after_diff_id", "only_last", "limit"}
StrMethods == {"with_new_name", "with_password"}
AllMethods ==
    BoolMethods \cup NumMethods \cup StrMethods
    \cup {"mtime", "ctime", "expire_link_after", "after"}

\* sample arguments: numbers, strings, and DateTime values given by their second

\* an argument of a fluent method; b, n or s is used according to the method;
\* again records that the method had been called before
NoArg == [set |-> FALSE, b |-> FALSE, n |-> 0, s |-> <<>>, again |-> FALSE]
Args(m) ==
    IF m \in BoolMethods
    THEN [set : {TRUE}, b : BOOLEAN, n : {0}, s : {<<>>}, again : {FALSE}]
    ELSE IF m \in NumMethods
    THEN [set : {TRUE}, b : {FALSE}, n : Revs, s : {<<>>}, again : {FALSE}]
    ELSE IF m \in StrMethods
    THEN [set : {TRUE}, b : {FALSE}, n : {0}, s : {<<"n">>, <<"m">>},
          again : {FALSE}]
    ELSE [set : {TRUE}, b : {FALSE}, n : {3, 7}, s : {<<>>}, again : {FALSE}]

NoConfig == [m \in AllMethods |-> NoArg]

\* DateTime::timestamp of the DateTime whose second is n
Timestamp(n) == n

\* format_date_time_for_pcloud of the DateTime whose second is n
FormatDate(n) == <<"date", ToString(n)>>

\* variant: a revision the descriptor carried is kept
with_revision_IfUnset(b, value) ==
    IF IsSome(b.revision_id) THEN b ELSE [b EXCEPT !.revision_id = Some(value)]

\* with_revision of the stat, download, checksum, copy, move and public-link
\* builders
with_revision(b, value) == [b EXCEPT !.revision_id = Some(value)]

\* variant: a second call appends to the name given before
with_new_name_Append(b, value) ==
    [b EXCEPT !.opts.to_name = IF IsSome(@) THEN Some(@[1] \o value) ELSE Some(value)]

\* with_new_name of the copy-file, move-file and move-folder builders
with_new_name(b, value) == [b EXCEPT !.opts.to_name = Some(value)]

\* the fluent method m of builder b called with argument a
ApplySetter(b, m, a) ==
    CASE m = "with_revision" -> with_revision(b, a.n)
      [] m = "overwrite" -> [b EXCEPT !.opts.overwrite = a.b]
      [] m = "mtime" -> [b EXCEPT !.opts.mtime = Some(Timestamp(a.n))]
      [] m = "ctime" -> [b EXCEPT !.opts.ctime = Some(Timestamp(a.n))]
      [] m = "with_new_name" -> with_new_name(b, a.s)
      [] m = "expire_link_after" -> [b EXCEPT !.opts.expire = Some(FormatDate(a.n))]
      [] m = "with_max_downloads" -> [b EXCEPT !.opts.max_downloads = Some(a.n)]
      [] m = "with_max_traffic" -> [b EXCEPT !.opts.max_traffic = Some(a.n)]
      [] m = "with_shortlink" -> [b EXCEPT !.opts.short_link = a.b]
      [] m = "with_password" -> [b EXCEPT !.opts.link_password = Some(a.s)]
      [] m = "no_partial" -> [b EXCEPT !.opts.no_partial = a.b]
      [] m = "rename_if_exists" -> [b EXCEPT !.opts.rename_if_exists = a.b]
      [] m = "recursive" -> [b EXCEPT !.opts.recursive = a.b]
      [] m = "showdeleted" -> [b EXCEPT !.opts.showdeleted = a.b]
      [] m = "nofiles" -> [b EXCEPT !.opts.nofiles = a.b]
      [] m = "noshares" -> [b EXCEPT !.opts.noshares = a.b]
      [] m = "if_not_exists" -> [b EXCEPT !.opts.if_not_exists = a.b]
      [] m = "skipexisting" -> [b EXCEPT !.opts.skipexisting = a.b]
      [] m = "copycontentonly" -> [b EXCEPT !.opts.copycontentonly = a.b]
      [] m = "after_diff_id" -> [b EXCEPT !.opts.diff_id = Some(a.n)]
      [] m = "after" -> [b EXCEPT !.opts.after = Some(FormatDate(a.n))]
      [] m = "only_last" -> [b EXCEPT !.opts.last = Some(a.n)]
      [] m = "block" -> [b EXCEPT !.opts.block = a.b]
      [] m = "limit" -> [b EXCEPT !.opts.limit = Some(a.n)]

\* ------------------------------------------------------- builder: state
Clients ==
    {[api_host |-> DefaultHost, session |-> NoSession],
     [api_host |-> Https("eu1"), session |-> MkSession("t1", Https("eu1"))]}

BInit ==
    /\ bclient \in Clients
    /\ bpc = "idle"
    /\ bkind = "none"
    /\ bsrc = NoInput
    /\ btgt = NoInput
    /\ builder = NoBuilder
    /\ berr = Ok
    /\ tree = EmptyTree
    /\ bres = NoResult
    /\ bresp = NoResponse
    /\ bcfg = NoConfig
    /\ bnet = <<>>

\* the value a constructor call returns is stored: the builder or the error
Constructed(kind, src, tgt, r) ==
    /\ bkind' = kind
    /\ bsrc' = src
    /\ btgt' = tgt
    /\ IF r.ok
       THEN /\ builder' = r.val
            /\ berr' = Ok
            /\ bpc' = "built"
       ELSE /\ builder' = NoBuilder
            /\ berr' = r.err
            /\ bpc' = "failed"
    /\ UNCHANGED <<bclient, tree, bres, bresp, bcfg, bnet>>
    /\ UNCHANGED svars

\* a file builder constructor is called
ConstructFile(kind, in) ==
    /\ bpc = "idle"
    /\ Constructed(kind, in, NoInput, ForFile(kind, in))

\* a folder builder constructor is called
ConstructFolder(kind, in) ==
    /\ bpc = "idle"
    /\ Constructed(kind, in, NoInput, ForFolder(kind, in))

\* copy_file / move_file is called
ConstructDualFile(kind, src, tgt) ==
    /\ bpc = "idle"
    /\ Constructed(kind, src, tgt, DualFile(kind, src, tgt))

\* copy_folder / move_folder is called
ConstructDualFolder(kind, src, tgt) ==
    /\ bpc = "idle"
    /\ Constructed(kind, src, tgt, DualFolder(kind, src, tgt))

\* UploadRequestBuilder::with_file
WithFile ==
    /\ bpc = "built"
    /\ builder.kind = "upload"
    /\ builder.opts.files < MaxFiles
    /\ builder' = [builder EXCEPT !.opts.files = @ + 1]
    /\ UNCHANGED <<bclient, bpc, bkind, bsrc, btgt, berr, tree, bres, bresp, bcfg,
                   bnet>>
    /\ UNCHANGED svars

\* PCloudClient::diff
ConstructDiff ==
    /\ bpc = "idle"
    /\ Constructed("diff", NoInput, NoInput, OkVal(DiffCreate))

\* a fluent method of the builder is called
Configure(m, a) ==
    /\ bpc = "built"
    /\ m \in Setters(builder.kind)
    /\ builder' = ApplySetter(builder, m, a)
    /\ bcfg' = [bcfg EXCEPT ![m] = [a EXCEPT !.again = bcfg[m].set]]
    /\ UNCHANGED <<bclient, bpc, bkind, bsrc, btgt, berr, tree, bres, bresp, bnet>>
    /\ UNCHANGED svars

\* UploadRequestBuilder::upload without files: returns without a request
UploadNothing ==
    /\ bpc = "built"
    /\ ShortCircuits(builder)
    /\ bres' = NothingUploaded
    /\ bpc' = "done"
    /\ UNCHANGED <<bclient, bkind, bsrc, btgt, builder, berr, tree, bresp, bcfg, bnet>>
    /\ UNCHANGED svars

\* variant: the request is sent a second time
Execute_Twice(m) ==
    /\ bpc = "built"
    /\ m \in Methods(builder.kind)
    /\ ~ShortCircuits(builder)
    /\ bnet' = Append(Append(bnet, Serialize(builder, m, bclient)),
                      Serialize(builder, m, bclient))
    /\ bpc' = "sent"
    /\ UNCHANGED <<bclient, bkind, bsrc, btgt, builder, berr, tree, bres, bresp, bcfg>>
    /\ UNCHANGED svars

\* a terminal method up to the await of send: the request leaves
Execute(m) ==
    /\ bpc = "built"
    /\ m \in Methods(builder.kind)
    /\ ~ShortCircuits(builder)
    /\ bnet' = Append(bnet, Serialize(builder, m, bclient))
    /\ bpc' = "sent"
    /\ UNCHANGED <<bclient, bkind, bsrc, btgt, builder, berr, tree, bres, bresp, bcfg>>
    /\ UNCHANGED svars

\* the response arrives and the terminal method returns
Respond(resp) ==
    /\ bpc = "sent"
    /\ bres' = IF builder.kind = "diff" THEN DiffResult(resp) ELSE ExecResult(resp)
    /\ bresp' = resp
    /\ bpc' = "done"
    /\ UNCHANGED <<bclient, bkind, bsrc, btgt, builder, berr, tree, bcfg, bnet>>
    /\ UNCHANGED svars

\* Tree::with_file / Tree::without_file up to the first await of get_file_id
TreeFile(op, in) ==
    /\ bpc \in {"idle", "resolved"}
    /\ bpc = "idle" => tree = EmptyTree
    /\ TreeLen(tree) < MaxTreeOps
    /\ bkind' = op
    /\ bsrc' = in
    /\ LET g == GetFileIdLocal(in) IN
         IF g.done
         THEN /\ bres' = g.res
              /\ builder' = NoBuilder
              /\ IF g.res.kind = "id"
                 THEN /\ tree' = TreePush(tree, op, g.res.id)
                      /\ bpc' = "resolved"
                      /\ berr' = Ok
                 ELSE /\ bpc' = "failed"
                      /\ berr' = g.res.code
                      /\ UNCHANGED tree
              /\ UNCHANGED bnet
         ELSE /\ builder' = g.b
              /\ bnet' = Append(bnet, Serialize(g.b, "get", bclient))
              /\ bpc' = "resolving"
              /\ bres' = NoResult
              /\ UNCHANGED <<tree, berr>>
    /\ UNCHANGED <<bclient, btgt, bresp, bcfg>>
    /\ UNCHANGED svars

\* the stat response arrives: get_file_id returns and the id is pushed
TreeFileRecv(resp) ==
    /\ bpc = "resolving"
    /\ LET g == GetFileIdRemote(resp, builder.revision_id) IN
         /\ bres' = g
         /\ IF g.kind = "id"
            THEN /\ tree' = TreePush(tree, bkind, g.id)
                 /\ bpc' = "resolved"
                 /\ berr' = Ok
            ELSE /\ bpc' = "failed"
                 /\ berr' = g.code
                 /\ UNCHANGED tree
    /\ builder' = NoBuilder
    /\ bresp' = resp
    /\ UNCHANGED <<bclient, bkind, bsrc, btgt, bcfg, bnet>>
    /\ UNCHANGED svars

\* ------------------------------------------------------- specifications
vars == <<svars, bvars>>

Init == SInit /\ BInit

Next ==
    \/ WithOAuth
    \/ WithUsernameAndPassword
    \/ \E resp \in LoginResponses : LoginRecv(resp)
    \/ \E resp \in DiscoverResponses : DiscoverRecv(resp)
    \/ \E h, g \in HandleIds : CloneClient(h, g)
    \/ \E h, g \in HandleIds : NewBuilder(h, g)
    \/ \E g \in HandleIds : ExecSend(g)
    \/ \E g \in HandleIds : ExecRecv(g)
    \/ \E h \in HandleIds : DropHandle(h)
    \/ LogoutSend
    \/ \E resp \in LogoutResponses : LogoutRecv(resp)
    \/ TaskCancel
    \/ DropReturn

Spec == Init /\ [][Next]_vars

BuilderNext ==
    \/ \E k \in FileSingleKinds, in \in FileInputs : ConstructFile(k, in)
    \/ \E k \in FolderSingleKinds, in \in FolderInputs : ConstructFolder(k, in)
    \/ \E k \in DualFileKinds, src \in FileInputs, tgt \in FolderInputs :
          ConstructDualFile(k, src, tgt)
    \/ \E k \in DualFolderKinds, src \in FolderInputs, tgt \in FolderInputs :
          ConstructDualFolder(k, src, tgt)
    \/ WithFile
    \/ UploadNothing
    \/ \E m \in {"get", "execute", "upload", "delete_recursive",
                 "delete_folder_if_empty"} : Execute(m)
    \/ \E resp \in OpResponses : Respond(resp)
    \/ \E op \in {"with_file", "without_file"}, in \in FileInputs : TreeFile(op, in)
    \/ \E resp \in StatResponses : TreeFileRecv(resp)

BuilderSpec == Init /\ [][BuilderNext]_vars

\* configuration of builders: a few descriptors, every fluent method
ConfigFileInputs ==
    {[tag |-> "u64", id |-> 5],
     [tag |-> "rev", inner |-> [tag |-> "u64", id |-> 5], rev |-> 3],
     [tag |-> "file",
      file |-> [file_id |-> None, path |-> Some(<<"/", "a">>), revision |-> Some(7)]]}
ConfigFolderInputs == {[tag |-> "u64", id |-> 5], [tag |-> "str", path |-> RootPath]}

ConfigInit ==
    /\ Init
    /\ runtime = "multi_thread"
    /\ bclient.session # NoSession

ConfigNext ==
    \/ \E k \in FileSingleKinds, in \in ConfigFileInputs : ConstructFile(k, in)
    \/ \E k \in FolderSingleKinds, in \in ConfigFolderInputs : ConstructFolder(k, in)
    \/ \E k \in DualFileKinds, src \in ConfigFileInputs, tgt \in ConfigFolderInputs :
          ConstructDualFile(k, src, tgt)
    \/ \E k \in DualFolderKinds, src \in ConfigFolderInputs, tgt \in ConfigFolderInputs :
          ConstructDualFolder(k, src, tgt)
    \/ ConstructDiff
    \/ \E m \in AllMethods : \E a \in Args(m) : Configure(m, a)
    \/ WithFile
    \/ UploadNothing
    \/ \E m \in {"get", "execute", "upload", "delete_recursive",
                 "delete_folder_if_empty"} : Execute(m)
    \/ \E resp \in OpResponses : Respond(resp)

ConfigSpec == ConfigInit /\ [][ConfigNext]_vars

\* result normalization: assert_ok applied to a decoded response
NormalizeInit ==
    /\ SInit
    /\ runtime = "multi_thread"
    /\ bclient \in Clients
    /\ bpc = "decoded"
    /\ bkind = "assert_ok"
    /\ bsrc = NoInput
    /\ btgt = NoInput
    /\ builder = NoBuilder
    /\ berr = Ok
    /\ tree = EmptyTree
    /\ bres = NoResult
    /\ bresp \in DecodedResponses
    /\ bcfg = NoConfig
    /\ bnet = <<>>

\* `.assert_ok()` is called on the decoded response
AssertOk ==
    /\ bpc = "decoded"
    /\ bres' = assert_ok(bresp)
    /\ berr' = assert_ok(bresp).err
    /\ bpc' = "done"
    /\ UNCHANGED <<bclient, bkind, bsrc, btgt, builder, tree, bresp, bcfg, bnet>>
    /\ UNCHANGED svars


NormalizeSpec == NormalizeInit /\ [][AssertOk]_vars
\* =================================================================
\* Properties of the session lifecycle (checked under Spec)
\* =================================================================
Dropped == {h \in HandleIds : handles[h] = "dropped"}
LoginSucceeded(resp) ==
    resp.transport = "ok" /\ resp.result = Ok /\ resp.auth # NoToken

\* C1: for a client made by login and cloned any number of times (builders
\* included), no logout request is sent while a handle remains, never more than
\* one is sent, it carries the session token, and exactly one has been sent when
\* the release of the last handle has returned.
C1_ExactlyOneLogout ==
    /\ Live(handles) # {} => CountEp("logout") = 0
    /\ CountEp("logout") <= 1
    /\ \A i \in 1..Len(net) : net[i].ep = "logout" => net[i].auth = session.token
    /\ dropState = "returned" => CountEp("logout") = 1

C1_Witness ==
    /\ mode = "password"
    /\ dropState = "returned"
    /\ Cardinality(Dropped) >= 3
    /\ CountEp("op") >= 1
    /\ CountEp("logout") = 1

\* C2: the session becomes Revoking only from Active and only when the last
\* handle is released, and Revoked only from Revoking; the releasing call has
\* returned only after the logout request was sent and its outcome received, and
\* the session is Revoked from then on, whatever the outcome was.
C2_RevokingThenRevoked ==
    /\ [](dropState = "returned" =>
             /\ task = "finished"
             /\ CountEp("logout") = 1
             /\ sessState = "Revoked")
    /\ [](sessState = "Revoked" => dropState = "returned")
    /\ [][/\ (sessState' = "Revoking" /\ sessState # "Revoking") =>
                (sessState = "Active" /\ Live(handles) # {} /\ Live(handles') = {})
          /\ (sessState' = "Revoked" /\ sessState # "Revoked") =>
                sessState = "Revoking"
          /\ sessState = "Revoked" => sessState' = "Revoked"
          /\ (sessState = "Active" /\ session.present /\ Live(handles) # {}
              /\ Live(handles') = {}) => sessState' = "Revoking"]_vars

C2_Witness ==
    /\ sessState = "Revoked"
    /\ dropState = "returned"
    /\ dropLog = "warn: Error on logout"
    /\ ~taskResult

\* C3: a failure of the revocation never propagates out of drop: the releasing
\* call never panics, also when the spawned task does not complete normally.
C3_DropNeverPanics == dropState # "panicked"

\* C4: a client made by with_oauth holds no session and is Stateless, and no
\* clone, builder construction, execute or drop ever sends a login or a logout
\* request or starts a revocation.
C4_StatelessNeverRevokes ==
    mode = "oauth" =>
        /\ ~session.present
        /\ sessState = "Stateless"
        /\ CountEp("login") = 0
        /\ CountEp("logout") = 0
        /\ task = "none"
        /\ dropState = "idle"
        /\ \A i \in 1..Len(net) : net[i].auth = NoToken

C4_Witness ==
    /\ mode = "oauth"
    /\ Live(handles) = {}
    /\ Cardinality(Dropped) >= 3
    /\ CountEp("op") >= 1

\* C5 as stated: every login failure, a failed request included, surfaces as
\* AccessDenied and yields no client and no session.
C5_EveryFailureAccessDenied ==
    (loginResp.transport # "none" /\ ~LoginSucceeded(loginResp)) =>
        /\ ctorResult = "AccessDenied"
        /\ ~session.present
        /\ \A h \in HandleIds : handles[h] = "free"

\* C5 amended: login sends exactly one credential-exchange request; after a
\* success response the session is Active (later Revoking, Revoked) and the
\* token stored is exactly the one the response returned; a non-success code or
\* a success code without a token surfaces as AccessDenied, a failed request
\* (transport or decoding) surfaces as its own error; every login failure
\* yields no client, no session and no further request.
C5_LoginOutcome ==
    /\ CountEp("login") = (IF mode = "password" THEN 1 ELSE 0)
    /\ mode = "password" => net[1].ep = "login"
    /\ cpc = "login_wait" => sessState = "Authenticating"
    /\ loginResp.transport # "none" =>
          IF LoginSucceeded(loginResp)
          THEN /\ loginToken = loginResp.auth
               /\ sessState \in {"Active", "Revoking", "Revoked"}
               /\ session.present => session.token = loginResp.auth
               /\ cpc = "ready" => session.present
          ELSE /\ cpc = "failed"
               /\ ctorResult = (IF loginResp.transport = "ok" THEN "AccessDenied"
                                ELSE loginResp.transport)
               /\ ~session.present
               /\ sessState = "Unauthenticated"
               /\ \A h \in HandleIds : handles[h] = "free"
               /\ Len(net) = 1

C5_Witness ==
    /\ mode = "password"
    /\ cpc = "ready"
    /\ loginResp.auth = "t2"
    /\ session.token = "t2"
    /\ sessState = "Active"

\* C15: once the discovery request was answered the client is constructed,
\* whatever the answer: pinned to the first returned candidate when the code is
\* Ok, with the supplied default host for any other code and for a request
\* that failed (a success answer is taken to return at least one candidate).
C15_DiscoveryNeverFailsConstruction ==
    (discoverResp.transport # "none"
     /\ ~(discoverResp.transport = "ok" /\ discoverResp.result = Ok
          /\ Len(discoverResp.api) = 0)) =>
        /\ cpc = "ready"
        /\ ctorResult = "ok"
        /\ apiHost = IF discoverResp.transport = "ok" /\ discoverResp.result = Ok
                     THEN Https(discoverResp.api[1])
                     ELSE DefaultHost
\* =================================================================
\* Properties of request building (checked under BuilderSpec)
\* =================================================================
\* what an argument denotes, read off the argument itself:
\* "present" (an id or a path), "empty" (neither), "rejected" (no descriptor)
BaseOf(in) == IF in.tag = "rev" THEN in.inner ELSE in

FileMetaClass(m) ==
    IF m.isfolder THEN "rejected"
    ELSE IF IsSome(m.fileid) THEN "present" ELSE "empty"

FileInputClass(in) ==
    LET b == BaseOf(in) IN
    CASE b.tag \in {"u64", "str"} -> "present"
      [] b.tag = "meta" -> FileMetaClass(b.meta)
      [] b.tag = "stat" ->
             IF b.stat.result = Ok /\ IsSome(b.stat.metadata)
             THEN FileMetaClass(b.stat.metadata[1]) ELSE "rejected"
      [] b.tag = "file" ->
             IF IsNone(b.file.file_id) /\ IsNone(b.file.path) THEN "empty"
             ELSE "present"

FolderMetaClass(m) ==
    IF ~m.isfolder THEN "rejected"
    ELSE IF IsSome(m.folderid) THEN "present" ELSE "empty"

FolderInputClass(in) ==
    CASE in.tag = "u64" -> "present"
      [] in.tag = "str" -> IF StartsWithSlash(in.path) THEN "present" ELSE "rejected"
      [] in.tag = "meta" -> FolderMetaClass(in.meta)
      [] in.tag = "stat" ->
             IF in.stat.result = Ok /\ IsSome(in.stat.metadata)
             THEN FolderMetaClass(in.stat.metadata[1]) ELSE "rejected"
      [] in.tag = "folder" ->
             IF IsNone(in.folder.folder_id) /\ IsNone(in.folder.path) THEN "empty"
             ELSE "present"

SrcClass ==
    IF bkind \in FileSingleKinds \cup DualFileKinds
    THEN FileInputClass(bsrc) ELSE FolderInputClass(bsrc)
TgtClass == FolderInputClass(btgt)

\* the id an argument carries, if it carries one
FileInputId(in) ==
    LET b == BaseOf(in) IN
    CASE b.tag = "u64" -> Some(b.id)
      [] b.tag = "str" -> None
      [] b.tag = "meta" -> IF b.meta.isfolder THEN None ELSE b.meta.fileid
      [] b.tag = "stat" ->
             IF b.stat.result = Ok /\ IsSome(b.stat.metadata)
                /\ ~b.stat.metadata[1].isfolder
             THEN b.stat.metadata[1].fileid ELSE None
      [] b.tag = "file" -> b.file.file_id

Named(req, name) == {i \in 1..Len(req.params) : req.params[i].name = name}
LastReq == bnet[Len(bnet)]
HasBuilder == bpc \in {"built", "sent", "done"}

\* C6: a single-source builder constructor given a descriptor with neither id
\* nor path returns the error NoFileIdOrPathProvided, returns no builder and
\* sends no request.
C6_EmptyDescriptorRejected ==
    (bkind \in SingleKinds /\ SrcClass = "empty") =>
        /\ bpc = "failed"
        /\ berr = NoFileIdOrPathProvided
        /\ builder.kind = "none"
        /\ bnet = <<>>

C6_Witness ==
    /\ bkind = "list_revisions"
    /\ bsrc.tag = "rev"
    /\ bsrc.inner.tag = "file"
    /\ SrcClass = "empty"
    /\ bpc = "failed"
    /\ berr = NoFileIdOrPathProvided

\* C7: a dual-target builder exists only if both the source and the target
\* descriptor have an id or a path; when both arguments are descriptors and one
\* of them is empty the constructor returns NoFileIdOrPathProvided, and a failed
\* constructor returns no builder and sends no request.
C7_DualNeedsBoth ==
    bkind \in DualKinds =>
        /\ HasBuilder <=> (SrcClass = "present" /\ TgtClass = "present")
        /\ (SrcClass # "rejected" /\ TgtClass # "rejected"
            /\ (SrcClass = "empty" \/ TgtClass = "empty")) =>
               (bpc = "failed" /\ berr = NoFileIdOrPathProvided)
        /\ bpc = "failed" => (builder.kind = "none" /\ bnet = <<>>)

C7_Witness ==
    /\ bkind = "copy_file"
    /\ SrcClass = "empty"
    /\ btgt = [tag |-> "u64", id |-> 5]
    /\ bpc = "failed"
    /\ berr = NoFileIdOrPathProvided
    /\ bnet = <<>>

\* C8: Tree::with_file / without_file (get_file_id) given a descriptor that
\* carries an id returns in the same step with that id pushed and without
\* sending a request, also when the descriptor carries a path or a revision.
C8_IdNeedsNoRequest ==
    [][(bpc \in {"idle", "resolved"} /\ bkind' \in {"with_file", "without_file"}
        /\ IsSome(FileInputId(bsrc'))) =>
          /\ bnet' = bnet
          /\ bpc' = "resolved"
          /\ bres'.kind = "id"
          /\ bres'.id = FileInputId(bsrc')[1]
          /\ tree' = TreePush(tree, bkind', FileInputId(bsrc')[1])]_vars

C8_Witness ==
    /\ bkind = "with_file"
    /\ bpc = "resolved"
    /\ bsrc.tag = "rev"
    /\ bsrc.inner.tag = "file"
    /\ IsSome(bsrc.inner.file.file_id)
    /\ IsSome(bsrc.inner.file.path)
    /\ tree.file_ids = <<5>>
    /\ bnet = <<>>

\* C9: the request of a builder whose descriptor has both an id and a path
\* addresses the object by the id parameter only and carries no path parameter.
C9_IdOnlyWhenBoth ==
    (bkind \in SingleKinds /\ bpc \in {"sent", "done"} /\ bnet # <<>>
     /\ IsSome(builder.id) /\ IsSome(builder.path)) =>
        /\ Named(LastReq, "path") = {}
        /\ Cardinality(Named(LastReq, "fileid") \cup Named(LastReq, "folderid")) = 1

\* C10: the folder path "/" converts to the descriptor with id 0 and no path
\* without a request; a builder made from it sends folderid=0 (tofolderid=0 for
\* a target) exactly once and no path parameter.
C10_RootIsIdZero ==
    /\ (bkind \in FolderSingleKinds \cup DualFolderKinds
        /\ bsrc = [tag |-> "str", path |-> RootPath] /\ HasBuilder) =>
          /\ builder.id = Some(0)
          /\ IsNone(builder.path)
          /\ bpc = "built" => bnet = <<>>
          /\ bnet # <<>> =>
               /\ Named(LastReq, "path") = {}
               /\ \E i \in 1..Len(LastReq.params) :
                     /\ LastReq.params[i] = PNum("folderid", 0)
                     /\ Named(LastReq, "folderid") = {i}
    /\ (bkind \in FolderSingleKinds /\ bsrc = [tag |-> "str", path |-> RootPath]) =>
          HasBuilder
    /\ (bkind \in DualKinds /\ btgt = [tag |-> "str", path |-> RootPath]
        /\ HasBuilder) =>
          /\ builder.to_id = Some(0)
          /\ IsNone(builder.to_path)
          /\ bnet # <<>> =>
               /\ Named(LastReq, "topath") = {}
               /\ \E i \in 1..Len(LastReq.params) :
                     /\ LastReq.params[i] = PNum("tofolderid", 0)
                     /\ Named(LastReq, "tofolderid") = {i}

C10_Witness ==
    /\ bkind = "list"
    /\ bsrc = [tag |-> "str", path |-> RootPath]
    /\ bpc = "sent"
    /\ Len(bnet) = 1
    /\ LastReq.params[1] = PNum("folderid", 0)
\* the path an argument carries, if it carries one
FileInputPath(in) ==
    LET b == BaseOf(in) IN
    CASE b.tag = "str" -> Some(b.path)
      [] b.tag = "file" -> b.file.path
      [] OTHER -> None

PathOnly(in) == IsNone(FileInputId(in)) /\ IsSome(FileInputPath(in))

\* the stat response names a file and its id
NamesAFile(resp) ==
    /\ resp.transport = "ok"
    /\ resp.result = Ok
    /\ IsSome(resp.metadata)
    /\ ~resp.metadata[1].isfolder
    /\ IsSome(resp.metadata[1].fileid)

\* C16: Tree::with_file / without_file given a descriptor with a path and no id
\* sends exactly one stat request for that path, pushes the file id of the
\* returned metadata without a further request, and what the tree adds to a
\* request are ids only, never a path.
C16_PathResolvedOnce ==
    /\ [][(bpc \in {"idle", "resolved"} /\ bkind' \in {"with_file", "without_file"}
            /\ PathOnly(bsrc')) =>
            /\ bpc' = "resolving"
            /\ Len(bnet') = Len(bnet) + 1
            /\ LastReq'.ep = "/stat"
            /\ Named(LastReq', "fileid") = {}
            /\ \E i \in 1..Len(LastReq'.params) :
                  /\ Named(LastReq', "path") = {i}
                  /\ LastReq'.params[i] = PStr("path", FileInputPath(bsrc')[1])
            /\ tree' = tree]_vars
    /\ [][bpc = "resolving" =>
            /\ bnet' = bnet
            /\ IF NamesAFile(bresp')
               THEN /\ bpc' = "resolved"
                    /\ bres'.kind = "id"
                    /\ bres'.id = bresp'.metadata[1].fileid[1]
                    /\ tree' = TreePush(tree, bkind, bresp'.metadata[1].fileid[1])
               ELSE /\ bpc' = "failed"
                    /\ tree' = tree]_vars
    /\ [](/\ Named([params |-> TreeParams(tree)], "path") = {}
          /\ Len(tree.file_ids) > 0 =>
                \E i \in 1..Len(TreeParams(tree)) :
                    TreeParams(tree)[i] = PStr("fileids", JoinIds(tree.file_ids))
          /\ Len(tree.exclude_file_ids) > 0 =>
                \E i \in 1..Len(TreeParams(tree)) :
                    TreeParams(tree)[i] =
                        PStr("excludefileids", JoinIds(tree.exclude_file_ids)))

C16_Witness ==
    /\ bkind = "with_file"
    /\ bpc = "resolved"
    /\ bsrc = [tag |-> "str", path |-> <<"/", "a">>]
    /\ Len(bnet) = 1
    /\ NamesAFile(bresp)
    /\ tree.file_ids = <<5>>
    /\ TreeParams(tree) = <<PStr("fileids", <<"5">>)>>

\* C17: when the stat request of a path resolution returns the metadata of a
\* folder where a file was requested, the resolution yields no id and fails
\* with the kind-mismatch error, which is not the no-identifier error.
C17_KindMismatchIsInvalidTarget ==
    (bkind \in {"with_file", "without_file"} /\ bpc \in {"resolved", "failed"}
     /\ PathOnly(bsrc)
     /\ bresp.transport = "ok" /\ bresp.result = Ok /\ IsSome(bresp.metadata)
     /\ bresp.metadata[1].isfolder) =>
        /\ bpc = "failed"
        /\ bres.kind = "error"
        /\ berr \notin {Ok, NoFileIdOrPathProvided}

\* the metadata record an argument holds: a Metadata, or the metadata of a
\* successful FileOrFolderStat
Record(in) ==
    LET b == BaseOf(in) IN
    CASE b.tag = "meta" -> Some(b.meta)
      [] b.tag = "stat" ->
             IF b.stat.result = Ok THEN b.stat.metadata ELSE None
      [] OTHER -> None


\* C18: a constructor given a metadata or stat record (alone or paired with a
\* revision) sends nothing; the builder's id is the record's fileid / folderid
\* and it has no path; a folder-flagged record where a file is expected and a
\* file-flagged record where a folder is expected fail with
\* InvalidFileOrFolderName.
C18_RecordsConvertDirectly ==
    (bpc \in {"built", "failed"} /\ bkind \in SingleKinds \cup DualKinds) =>
        /\ (IsSome(Record(bsrc)) \/ IsSome(Record(btgt))) => bnet = <<>>
        /\ IsSome(Record(bsrc)) =>
              LET rec == Record(bsrc)[1] IN
              IF bkind \in FileSingleKinds \cup DualFileKinds
              THEN /\ rec.isfolder =>
                        bpc = "failed" /\ berr = InvalidFileOrFolderName
                   /\ bpc = "built" =>
                        builder.id = rec.fileid /\ builder.path = None
                   /\ (~rec.isfolder /\ IsSome(rec.fileid)
                       /\ bkind \in FileSingleKinds) => bpc = "built"
              ELSE /\ ~rec.isfolder =>
                        bpc = "failed" /\ berr = InvalidFileOrFolderName
                   /\ bpc = "built" =>
                        builder.id = rec.folderid /\ builder.path = None
                   /\ (rec.isfolder /\ IsSome(rec.folderid)
                       /\ bkind \in FolderSingleKinds) => bpc = "built"
        /\ (bkind \in DualKinds /\ IsSome(Record(btgt))) =>
              LET rec == Record(btgt)[1] IN
              /\ (~rec.isfolder /\ SrcClass # "rejected") =>
                    bpc = "failed" /\ berr = InvalidFileOrFolderName
              /\ bpc = "built" =>
                    builder.to_id = rec.folderid /\ builder.to_path = None

C18_Witness ==
    /\ bkind = "stat"
    /\ bpc = "failed"
    /\ bsrc = [tag |-> "rev",
               inner |-> [tag |-> "meta",
                          meta |-> [isfolder |-> TRUE, fileid |-> Some(5),
                                    folderid |-> None]],
               rev |-> 3]
    /\ berr = InvalidFileOrFolderName
    /\ bnet = <<>>

\* C19: a builder of a kind that has a revision, constructed from an
\* (identifier, revision) pair, holds that revision, sends it as the one
\* revisionid parameter of its request, and has the id and path (and the
\* success or failure) the identifier alone gives.
C19_RevisionNarrows ==
    (bkind \in RevisionKinds /\ bsrc.tag = "rev") =>
        LET plain == to_file(bsrc.inner) IN
        /\ bpc = "failed" =>
              \/ ~plain.ok /\ berr = plain.err
              \/ plain.ok /\ is_empty(plain.val)
              \/ bkind \in DualFileKinds /\ TgtClass # "present"
        /\ HasBuilder =>
              /\ plain.ok
              /\ builder.id = plain.val.file_id
              /\ builder.path = plain.val.path
              /\ builder.revision_id = Some(bsrc.rev)
        /\ bpc \in {"sent", "done"} =>
              \E i \in 1..Len(LastReq.params) :
                  /\ Named(LastReq, "revisionid") = {i}
                  /\ LastReq.params[i] = PNum("revisionid", bsrc.rev)

C19_Witness ==
    /\ bkind = "move_file"
    /\ bpc = "sent"
    /\ bsrc = [tag |-> "rev",
               inner |-> [tag |-> "file",
                          file |-> [file_id |-> Some(5), path |-> None,
                                    revision |-> Some(3)]],
               rev |-> 7]
    /\ builder.revision_id = Some(7)
    /\ PNum("revisionid", 7) \in {LastReq.params[i] : i \in 1..Len(LastReq.params)}

\* the argument is a string that does not begin with "/"
RelativePath(in) == in.tag = "str" /\ (Len(in.path) = 0 \/ in.path[1] # "/")

\* the argument is a string that begins with "/" and is not "/"
AbsoluteBelowRoot(in) ==
    in.tag = "str" /\ Len(in.path) > 1 /\ in.path[1] = "/"

\* C25: a folder constructor given a string that does not start with "/" (the
\* empty string included), as source or as target, fails with InvalidPath,
\* returns no builder and sends nothing; a string that starts with "/" and is
\* not "/" gives a builder with that path and no id.
C25_FolderPathsAbsolute ==
    /\ (bkind \in FolderSingleKinds \cup DualFolderKinds /\ RelativePath(bsrc)) =>
          /\ bpc = "failed"
          /\ berr = InvalidPath
          /\ builder = NoBuilder
          /\ bnet = <<>>
    /\ (bkind \in DualKinds /\ RelativePath(btgt) /\ SrcClass # "rejected") =>
          /\ bpc = "failed"
          /\ berr = InvalidPath
          /\ builder = NoBuilder
          /\ bnet = <<>>
    /\ (bkind \in FolderSingleKinds /\ AbsoluteBelowRoot(bsrc)) => HasBuilder
    /\ (bkind \in FolderSingleKinds \cup DualFolderKinds /\ AbsoluteBelowRoot(bsrc)
        /\ HasBuilder) =>
          /\ builder.id = None
          /\ builder.path = Some(bsrc.path)
    /\ (bkind \in DualKinds /\ AbsoluteBelowRoot(btgt) /\ HasBuilder) =>
          /\ builder.to_id = None
          /\ builder.to_path = Some(btgt.path)

C25_Witness ==
    /\ bkind = "delete_folder"
    /\ bsrc = [tag |-> "str", path |-> <<>>]
    /\ bpc = "failed"
    /\ berr = InvalidPath
    /\ builder = NoBuilder
    /\ bnet = <<>>

\* C30: every request sent from a client with a session carries the parameter
\* auth exactly once, with the session's token; no request sent from a client
\* without a session carries it.
C30_AuthAttachedUniformly ==
    \A k \in 1..Len(bnet) :
        IF bclient.session.present
        THEN \E i \in 1..Len(bnet[k].params) :
                 /\ Named(bnet[k], "auth") = {i}
                 /\ bnet[k].params[i] = PStr("auth", <<bclient.session.token>>)
        ELSE Named(bnet[k], "auth") = {}

C30_Witness ==
    /\ bclient.session.present
    /\ bkind = "copy_file"
    /\ bpc = "sent"
    /\ Cardinality(Named(LastReq, "auth")) = 1

\* =================================================================
\* Properties of configured builders (checked under ConfigSpec)
\* =================================================================
\* C11: the request of a builder on which with_revision was called carries the
\* parameter revisionid exactly once, with the value of the last call, also when
\* the descriptor carried a revision of its own.
C11_RevisionSentOnce ==
    (bpc \in {"sent", "done"} /\ bnet # <<>> /\ bcfg["with_revision"].set) =>
        \E i \in 1..Len(LastReq.params) :
            /\ Named(LastReq, "revisionid") = {i}
            /\ LastReq.params[i] = PNum("revisionid", bcfg["with_revision"].n)

C11_Witness ==
    /\ bkind = "copy_file"
    /\ bsrc.tag = "rev"
    /\ bsrc.rev = 3
    /\ bcfg["with_revision"].set
    /\ bcfg["with_revision"].n = 7
    /\ bpc = "sent"
    /\ Cardinality(Named(LastReq, "revisionid")) = 1
\* =================================================================
\* Properties of result normalization (checked under NormalizeSpec)
\* =================================================================
\* C12: assert_ok returns the response itself when its code is Ok, and for every
\* other code of PCloudResult an error that is exactly that code.
C12_AssertOkKeepsCode ==
    (bkind = "assert_ok" /\ bpc = "done") =>
        IF bresp.result = Ok
        THEN bres.ok /\ bres.val = bresp /\ berr = Ok
        ELSE ~bres.ok /\ bres.err = bresp.result /\ berr = bresp.result

C12_Witness ==
    /\ bkind = "assert_ok"
    /\ bpc = "done"
    /\ bresp.result = 2043
    /\ IsSome(bresp.metadata)
    /\ ~bres.ok
    /\ bres.err = 2043
\* C13: upload of a builder without file parts returns the synthetic payload
\* (result Ok, no file ids, no metadata) and sends nothing, whatever fluent
\* methods were called; with at least one file part it sends the request.
C13_EmptyUploadShortCircuits ==
    bkind = "upload" =>
        /\ (bpc = "done" /\ builder.opts.files = 0) =>
              /\ bres.kind = "payload"
              /\ bres.code = Ok
              /\ bres.fileids = <<>>
              /\ bres.metadata = <<>>
              /\ bnet = <<>>
        /\ bpc = "sent" => builder.opts.files > 0
        /\ (bpc \in {"sent", "done"} /\ builder.opts.files > 0) =>
              /\ Len(bnet) = 1
              /\ LastReq.ep = "/uploadfile"

C13_Witness ==
    /\ bkind = "upload"
    /\ bpc = "done"
    /\ builder.opts.files = 0
    /\ bcfg["no_partial"].set
    /\ bcfg["mtime"].set
    /\ bres = NothingUploaded
    /\ bnet = <<>>
\* C14: a terminal method of a constructed builder (upload without file parts
\* apart) sends exactly one request and returns one outcome: the payload when
\* the response decodes with the code Ok, an error otherwise (for the builders
\* that call assert_ok, the code of the response); nothing is sent before it is
\* called nor after it returned.
C14_OneRoundTrip ==
    /\ [](bkind \in SingleKinds \cup DualKinds \cup {"diff"} =>
            /\ bpc \in {"built", "failed"} => (bnet = <<>> /\ bres = NoResult)
            /\ bpc = "sent" => (Len(bnet) = 1 /\ bres = NoResult)
            /\ (bpc = "done" /\ ~ShortCircuits(builder)) =>
                  /\ Len(bnet) = 1
                  /\ bres.kind \in {"payload", "error", "failure"}
                  /\ bres.kind = "payload" <=>
                        (bresp.transport = "ok" /\ bresp.result = Ok)
                  /\ bres.kind = "failure" => bres.cause # "none"
                  /\ (bkind # "diff" /\ bresp.transport = "ok"
                      /\ bresp.result # Ok) =>
                        (bres.kind = "error" /\ bres.code = bresp.result))
    /\ [][bpc = "done" => (bnet' = bnet /\ bres' = bres)]_vars

C14_Witness ==
    /\ bkind = "copy_file"
    /\ bpc = "done"
    /\ Len(bnet) = 1
    /\ LastReq.ep = "/copyfile"
    /\ bres.kind = "error"
    /\ bres.code = FileNotFound

\* the field of the builder a fluent method assigns
FieldOf(m) ==
    CASE m = "with_new_name" -> "to_name"
      [] m = "expire_link_after" -> "expire"
      [] m = "with_max_downloads" -> "max_downloads"
      [] m = "with_max_traffic" -> "max_traffic"
      [] m = "with_shortlink" -> "short_link"
      [] m = "with_password" -> "link_password"
      [] m = "after_diff_id" -> "diff_id"
      [] m = "only_last" -> "last"
      [] OTHER -> m

\* the value the field has after the method was called with argument a
ValueOf(m, a) ==
    IF m \in BoolMethods THEN a.b
    ELSE IF m \in StrMethods THEN Some(a.s)
    ELSE IF m \in {"expire_link_after", "after"} THEN Some(FormatDate(a.n))
    ELSE IF m \in {"mtime", "ctime"} THEN Some(Timestamp(a.n))
    ELSE Some(a.n)

\* the builder as the constructor returned it
Base ==
    CASE bkind = "diff" -> DiffCreate
      [] bkind \in FileSingleKinds -> ForFile(bkind, bsrc).val
      [] bkind \in FolderSingleKinds -> ForFolder(bkind, bsrc).val
      [] bkind \in DualFileKinds -> DualFile(bkind, bsrc, btgt).val
      [] bkind \in DualFolderKinds -> DualFolder(bkind, bsrc, btgt).val

\* the methods of the builder that were called and assign field f
Assigning(f) ==
    {m \in Setters(bkind) \ {"with_revision"} : bcfg[m].set /\ FieldOf(m) = f}

\* every field a fluent method assigns holds the argument of the method's last
\* call, every other field what the constructor gave it
SettersLastWriteWins ==
    /\ builder.kind = Base.kind
    /\ builder.id = Base.id
    /\ builder.path = Base.path
    /\ builder.to_id = Base.to_id
    /\ builder.to_path = Base.to_path
    /\ builder.revision_id =
          IF "with_revision" \in Setters(bkind) /\ bcfg["with_revision"].set
          THEN Some(bcfg["with_revision"].n) ELSE Base.revision_id
    /\ DOMAIN builder.opts = DOMAIN Base.opts
    /\ \A f \in DOMAIN Base.opts \ {"files"} :
          IF Assigning(f) # {}
          THEN \A m \in Assigning(f) : builder.opts[f] = ValueOf(m, bcfg[m])
          ELSE builder.opts[f] = Base.opts[f]

\* C20 as stated: every fluent method, with_file included, is idempotent and
\* last-write-wins: the fields hold the last arguments, and an upload builder
\* given the same file part again holds it once.
C20_EveryMethodIdempotent ==
    HasBuilder =>
        /\ SettersLastWriteWins
        /\ builder.kind = "upload" => builder.opts.files <= 1

\* C20: every fluent method except the upload builder's with_file is idempotent
\* and last-write-wins and changes no other field: the builder always equals
\* the constructed one with each called method's field set to the argument of
\* its last call; a step that changes the builder without a new argument is a
\* with_file call, which adds one file part and changes nothing else.
C20_SettersLastWriteWins ==
    /\ [](HasBuilder => SettersLastWriteWins)
    /\ [][(HasBuilder /\ \A m \in AllMethods :
                             /\ bcfg'[m].set = bcfg[m].set
                             /\ bcfg'[m].b = bcfg[m].b
                             /\ bcfg'[m].n = bcfg[m].n
                             /\ bcfg'[m].s = bcfg[m].s) =>
             \/ builder' = builder
             \/ /\ builder.kind = "upload"
                /\ builder' = [builder EXCEPT !.opts.files = @ + 1]]_vars

C20_Witness ==
    /\ bkind = "copy_file"
    /\ bpc = "built"
    /\ bcfg["with_new_name"].again
    /\ bcfg["with_new_name"].s = <<"m">>
    /\ builder.opts.to_name = Some(<<"m">>)
    /\ bcfg["overwrite"].again
    /\ ~bcfg["overwrite"].b
    /\ ~builder.opts.overwrite
    /\ bcfg["with_revision"].again
    /\ builder.revision_id = Some(bcfg["with_revision"].n)


\* =================================================================
\* Properties of the order and the outcome of requests
\* (C21 checked under Spec, C22 under ConfigSpec)
\* =================================================================
\* positions in net of the requests to endpoint ep
Idx(ep) == {i \in 1..Len(net) : net[i].ep = ep}

\* C21 as stated: the discovery request precedes the login request, and every
\* operation request follows both.
C21_DiscoveryThenLogin ==
    /\ \A i \in Idx("login") : \E j \in Idx("getapiserver") : j < i
    /\ \A k \in Idx("op") : \E j \in Idx("getapiserver") : j < k

\* C21: with username and password the login request is the first request and
\* the one discovery request follows its success, carrying the token login
\* returned; with OAuth there is no login request; an operation request is
\* sent only after the constructor returned the client, so after both.
C21_LoginThenDiscovery ==
    /\ Cardinality(Idx("login")) <= 1
    /\ Cardinality(Idx("getapiserver")) <= 1
    /\ mode = "oauth" => Idx("login") = {}
    /\ mode = "password" =>
          \A j \in Idx("getapiserver") :
              /\ \E i \in Idx("login") : i < j
              /\ LoginResult(loginResp).ok
              /\ net[j].auth = LoginResult(loginResp).token
    /\ \A k \in Idx("op") :
          /\ \E j \in Idx("getapiserver") : j < k
          /\ \A i \in Idx("login") : i < k
          /\ discoverResp.transport = "ok"
          /\ cpc = "ready"

C21_Witness ==
    /\ mode = "password"
    /\ Len(net) >= 3
    /\ net[1].ep = "login"
    /\ net[2].ep = "getapiserver"
    /\ net[3].ep = "op"

\* C22: a terminal method that received a decoded response with a code other
\* than Ok returns an error that is that code, never a payload.
C22_EveryCodeNormalized ==
    (bpc = "done" /\ bresp.transport = "ok" /\ bresp.result # Ok) =>
        /\ bres.kind = "error"
        /\ bres.code = bresp.result


\* =================================================================
\* Properties of clones (checked under Spec)
\* =================================================================
\* C23: a step that adds a holder of the client (a clone, or a builder, which
\* holds a clone) sends nothing and leaves the session, its token and the
\* pinned endpoint as they are; whatever the number of holders there is at most
\* one login request, and every operation request of any holder carries the
\* token of the one session and goes to the pinned endpoint.
C23_CloneNeverReauthenticates ==
    /\ [][(\E g \in HandleIds : handles[g] = "free"
                                /\ handles'[g] \in {"client", "builder"}
                                /\ cpc = "ready") =>
             /\ net' = net
             /\ session' = session
             /\ apiHost' = apiHost
             /\ sessState' = sessState]_vars
    /\ [](/\ Cardinality(Idx("login")) <= 1
          /\ \A k \in Idx("op") :
                /\ net[k].auth = AddToken(session)
                /\ net[k].host = apiHost)

C23_Witness ==
    /\ mode = "password"
    /\ session.present
    /\ handles[1] = "client"
    /\ handles[2] = "client"
    /\ handles[3] = "executing"
    /\ Cardinality(Idx("login")) = 1
    /\ net[Len(net)] = Req("op", session.api_host, session.token)

\* =================================================================
\* Properties of the copy-folder request (checked under ConfigSpec)
\* =================================================================
\* C24: the copy-folder request carries skipexisting exactly when skipexisting
\* is set, copycontentonly exactly when copycontentonly is set, and noover
\* exactly when overwrite is not set.
C24_CopyFolderFlags ==
    (bkind = "copy_folder" /\ bpc \in {"sent", "done"}) =>
        /\ (Named(LastReq, "skipexisting") # {}) <=> builder.opts.skipexisting
        /\ (Named(LastReq, "copycontentonly") # {}) <=> builder.opts.copycontentonly
        /\ (Named(LastReq, "noover") # {}) <=> ~builder.opts.overwrite


\* =================================================================
\* Properties of revocation (checked under Spec and FairSpec)
\* =================================================================
\* the session lifecycle with the scheduling the runtime provides: responses
\* arrive, a spawned task is polled when a thread is free to poll it, and a
\* resolved block_on returns; a shutdown of the runtime is not forced
FairSpec ==
    /\ Spec
    /\ WF_vars(\E resp \in LoginResponses : LoginRecv(resp))
    /\ WF_vars(\E resp \in DiscoverResponses : DiscoverRecv(resp))
    /\ WF_vars(LogoutSend)
    /\ WF_vars(\E resp \in LogoutResponses : LogoutRecv(resp))
    /\ WF_vars(DropReturn)

\* C26: once the logout request of a token is sent no holder of the client is
\* left and no later request carries that token; an operation request of a
\* client with a session is sent while the session is Active and no logout
\* task exists, with the session's token.
C26_NoTokenAfterLogout ==
    /\ [](\A i \in Idx("logout") :
            /\ \A h \in HandleIds : handles[h] \in {"free", "dropped"}
            /\ \A k \in 1..Len(net) : k > i => net[k].auth # net[i].auth)
    /\ [][(Len(net') > Len(net) /\ net'[Len(net')].ep = "op" /\ session.present) =>
             /\ net'[Len(net')].auth = session.token
             /\ task = "none"
             /\ sessState = "Active"]_vars

C26_Witness ==
    /\ session.present
    /\ handles[1] = "dropped"
    /\ \A h \in HandleIds : handles[h] # "client"
    /\ \E g \in HandleIds : handles[g] = "executing"
    /\ net[Len(net)] = Req("op", apiHost, session.token)
    /\ Idx("logout") = {}
    /\ sessState = "Active"

\* C27, on the path the claim names: when login returned a token and the
\* constructor then failed, a logout request carrying that token is
\* eventually sent.
C27_TokenOfFailedConstructionRevoked ==
    (cpc = "failed" /\ loginToken # NoToken) ~>
        (\E i \in Idx("logout") : net[i].auth = loginToken)

\* C28: a release that entered block_on in PCloudClientSession::drop
\* eventually leaves it.
C28_DropTerminates ==
    (dropState = "blocked") ~> (dropState # "blocked")

\* C29: the session holds the token login returned and the endpoint the
\* constructor pinned, and neither changes while the session exists; the
\* logout request carries that token and goes to that endpoint, to which every
\* operation request of every holder goes as well.
C29_TokenAndEndpointPinned ==
    /\ [](session.present =>
            /\ session.token = LoginResult(loginResp).token
            /\ session.api_host = apiHost
            /\ apiHost = BestApiServer(discoverResp, DefaultHost).host)
    /\ [](\A i \in Idx("logout") :
            /\ net[i].auth = LoginResult(loginResp).token
            /\ net[i].host = apiHost)
    /\ [](\A k \in Idx("op") : net[k].host = apiHost)
    /\ [][cpc = "ready" => (session' = session /\ apiHost' = apiHost)]_vars

C29_Witness ==
    /\ apiHost = Https("eu2")
    /\ session = [present |-> TRUE, token |-> "t2", api_host |-> Https("eu2")]
    /\ Idx("op") # {}
    /\ net[Len(net)] = Req("logout", Https("eu2"), "t2")

====
